---- MODULE Spec2Model ----
(***************************************************************************)
(* Backlink article generator: BacklinkArticleWorkflow.run (agents.py),    *)
(* the metrics of an article text, and the Streamlit session that drives   *)
(* one run per click (app.py).                                             *)
(*                                                                         *)
(* A text is a sequence of one-character strings.  The LLM is an external  *)
(* collaborator: each task of the crew asks it once and gets back a text   *)
(* or an exception.                                                        *)
(***************************************************************************)
EXTENDS Integers, Sequences, FiniteSets, TLC

VARIABLES run, oracle, session, screen, environ, workflow, fetch, widgets, client

vars == <<run, oracle, session, screen, environ, workflow, fetch, widgets, client>>

\* what a call of run() leaves alone: the process environment, the
\* constructed workflows, the content fetcher, the widgets of the page and
\* the LLM client
process == <<environ, workflow, fetch, widgets, client>>

None == "None"

(***************************************************************************)
(* Texts                                                                   *)
(***************************************************************************)
Whitespace == {" ", "\n"}

SentenceEnd == {".", "!", "?"}

Min(a, b) == IF a <= b THEN a ELSE b

\* s[:n]
Take(s, n) == SubSeq(s, 1, Min(n, Len(s)))

\* s[n+1:]
Drop(s, n) == SubSeq(s, n + 1, Len(s))

\* str.lower() on the characters the texts below use
Lower(c) ==
    CASE c = "K" -> "k"
      [] c = "W" -> "w"
      [] c = "A" -> "a"
      [] c = "I" -> "i"
      [] c = "U" -> "u"
      [] c = "O" -> "o"
      [] c = "G" -> "g"
      [] OTHER -> c

LowerText(s) == [i \in 1..Len(s) |-> Lower(s[i])]

\* a substring test that ignores case
ContainsIgnoreCase(s, sub) ==
    \E i \in 0..(Len(s) - Len(sub)) :
        LowerText(SubSeq(s, i + 1, i + Len(sub))) = LowerText(sub)

\* `sub in s`: sub occurs in s as a contiguous block of characters
Contains(s, sub) ==
    \E i \in 0..(Len(s) - Len(sub)) : SubSeq(s, i + 1, i + Len(sub)) = sub

\* str.strip()
RECURSIVE StripLeft(_)
StripLeft(s) ==
    IF s # <<>> /\ Head(s) \in Whitespace THEN StripLeft(Tail(s)) ELSE s

RECURSIVE StripRight(_)
StripRight(s) ==
    IF s # <<>> /\ s[Len(s)] \in Whitespace
    THEN StripRight(SubSeq(s, 1, Len(s) - 1))
    ELSE s

Strip(s) == StripRight(StripLeft(s))

\* s.split(' '): the pieces between single spaces, empty ones included
RECURSIVE SplitWsOnSpaces(_, _)
SplitWsOnSpaces(s, cur) ==
    IF s = <<>>
    THEN <<cur>>
    ELSE IF Head(s) = " "
         THEN <<cur>> \o SplitWsOnSpaces(Tail(s), <<>>)
         ELSE SplitWsOnSpaces(Tail(s), Append(cur, Head(s)))

\* str.split(): the maximal blocks of non-whitespace characters, in order.
\* cur is the token being read.
RECURSIVE SplitWs(_, _)
SplitWs(s, cur) ==
    IF s = <<>>
    THEN IF cur = <<>> THEN <<>> ELSE <<cur>>
    ELSE IF Head(s) \in Whitespace
         THEN IF cur = <<>>
              THEN SplitWs(Tail(s), <<>>)
              ELSE <<cur>> \o SplitWs(Tail(s), <<>>)
         ELSE SplitWs(Tail(s), Append(cur, Head(s)))

\* re.split(r'[.!?]+', s): the pieces between the runs of sentence
\* punctuation, the empty first and last pieces included.  inRun says the
\* previous character belonged to a run of punctuation.
RECURSIVE SplitSentences(_, _, _)
SplitSentences(s, cur, inRun) ==
    IF s = <<>>
    THEN <<cur>>
    ELSE IF Head(s) \in SentenceEnd
         THEN IF inRun
              THEN SplitSentences(Tail(s), <<>>, TRUE)
              ELSE <<cur>> \o SplitSentences(Tail(s), <<>>, TRUE)
         ELSE SplitSentences(Tail(s), Append(cur, Head(s)), FALSE)

RECURSIVE Sum(_)
Sum(seq) == IF seq = <<>> THEN 0 ELSE Head(seq) + Sum(Tail(seq))

\* the shortest trimmed fragment that counts as a sentence is longer than this
MinSentenceChars == 10

\* a filter that keeps a fragment of exactly the threshold length
KeptSentenceFromTen(frag) == Strip(frag) # <<>> /\ Len(Strip(frag)) >= MinSentenceChars

\* sentences = [s.strip() for s in sentences if s.strip() and len(s.strip()) > 10]
KeptSentence(frag) == Strip(frag) # <<>> /\ Len(Strip(frag)) > MinSentenceChars

RECURSIVE KeepSentences(_)
KeepSentences(frags) ==
    IF frags = <<>>
    THEN <<>>
    ELSE IF KeptSentence(Head(frags))
         THEN <<Strip(Head(frags))>> \o KeepSentences(Tail(frags))
         ELSE KeepSentences(Tail(frags))

Sentences(article) == KeepSentences(SplitSentences(article, <<>>, FALSE))

\* the quotient cut after two decimals
TruncatedAverage(total, n) == (100 * total) \div n

\* round(total / n, 2), in hundredths: the nearest hundredth of the exact
\* quotient, a tie going to the even one
RoundedAverage(total, n) ==
    LET q == (100 * total) \div n
        rem == (100 * total) % n
    IN  IF 2 * rem > n \/ (2 * rem = n /\ q % 2 = 1) THEN q + 1 ELSE q

\* _calculate_metrics(article, primary_keyword, original_url);
\* avg_words_per_sentence is in hundredths
_calculate_metrics(article, primary_keyword, original_url) ==
    LET words == SplitWs(article, <<>>)
        sentences == Sentences(article)
        sentence_word_counts ==
            [i \in 1..Len(sentences) |-> Len(SplitWs(sentences[i], <<>>))]
    IN  [word_count |-> Len(words),
         sentence_count |-> Len(sentences),
         avg_words_per_sentence |->
             IF sentence_word_counts # <<>>
             THEN RoundedAverage(Sum(sentence_word_counts), Len(sentence_word_counts))
             ELSE 0,
         backlink_status |->
             IF Contains(article, original_url) THEN "Present" ELSE "Not Found"]

\* f"{x:.1f}" of a value given in hundredths, in tenths.  A value ending in 5
\* hundredths is printed by the binary double nearest to it: these are the
\* ones below 20 whose double lies above the tie and is printed rounded up.
TiesPrintedUp ==
    {5, 45, 55, 65, 75, 105, 135, 155, 175, 185, 235, 245, 275, 285, 295, 335,
     345, 375, 385, 395, 415, 445, 465, 475, 495, 515, 545, 565, 575, 595, 615,
     645, 665, 675, 695, 715, 745, 765, 775, 795, 805, 815, 855, 865, 875, 905,
     915, 955, 965, 975, 1005, 1015, 1055, 1065, 1075, 1105, 1115, 1155, 1165,
     1175, 1205, 1215, 1255, 1265, 1275, 1305, 1315, 1355, 1365, 1375, 1405,
     1415, 1455, 1465, 1475, 1505, 1515, 1555, 1565, 1575, 1605, 1635, 1655,
     1675, 1685, 1705, 1735, 1755, 1775, 1785, 1805, 1835, 1855, 1875, 1885,
     1905, 1935, 1955, 1975, 1985}

FormatOneDecimal(h) ==
    IF h % 10 > 5 \/ (h % 10 = 5 /\ h \in TiesPrintedUp)
    THEN h \div 10 + 1
    ELSE h \div 10

(***************************************************************************)
(* Requests                                                                *)
(***************************************************************************)
KW == <<"k", "w">>

URL == <<"u", "r", "l">>

\* stands for the brand name the prompts hard-code, "Labellerr AI"
BrandName == <<"A", "I">>

OriginalContent == <<"o", "r", "i", "g">>

CompetitorText == <<"c", "o", "m", "p">>

\* the keys run() reads with input_data[...]; 'labellerr_link' is read with
\* .get and a default
RequiredKeys ==
    {"competitor_articles", "original_article_url", "original_article_content",
     "primary_keyword", "secondary_keywords", "target_word_count",
     "labellerr_mention_count"}

Competitor(i, content) == [url |-> <<"c", "u">>, content |-> content]

\* three competitor slots, as the form has; which of them carry content
CompetitorLists ==
    {[i \in 1..3 |-> Competitor(i, IF i \in filled THEN CompetitorText ELSE <<>>)] :
        filled \in {{1, 2, 3}, {2}, {}}}

\* the word-count target and the brand-mention target of the direct callers
TargetWords == 8

TargetMentions == 1

\* input_data; missing names the key the dictionary lacks, if any
InputData(missing, kw, url, content, comps, target, mentions) ==
    [missing |-> missing,
     primary_keyword |-> kw,
     secondary_keywords |-> <<>>,
     original_article_url |-> url,
     original_article_content |-> content,
     competitor_articles |-> comps,
     target_word_count |-> target,
     labellerr_mention_count |-> mentions]

FullList == [i \in 1..3 |-> Competitor(i, CompetitorText)]

\* what a direct caller of run() may pass: a dictionary lacking one key, or a
\* complete one whose keyword may be empty and whose target may be 0
Requests ==
    {InputData(k, KW, URL, OriginalContent, FullList, TargetWords, TargetMentions) :
        k \in RequiredKeys}
    \cup {InputData(None, kw, URL, OriginalContent, FullList, t, TargetMentions) :
            kw \in {<<>>, KW}, t \in {0, TargetWords}}
    \cup {InputData(None, KW, URL, OriginalContent, c, TargetWords, TargetMentions) :
            c \in CompetitorLists}

(***************************************************************************)
(* The LLM                                                                 *)
(***************************************************************************)
\* "KW url AI ai a a a a a.": keyword in the title, link, brand twice, 9
\* words in one sentence
GoodArticle ==
    <<"K", "W", " ", "u", "r", "l", " ", "A", "I", " ", "a", "i", " ", "a",
      " ", "a", " ", "a", " ", "a", " ", "a", ".">>

\* "a a.": two words, no keyword, no link, no brand, no sentence
PoorArticle == <<"a", " ", "a", ".">>

EmptyText == <<>>

Responses == {GoodArticle, PoorArticle, EmptyText}

\* what one task of the crew comes back with: a text, or an exception (the
\* provider failed; or the response was empty and the library refused it)
TextOutcome(t) == [kind |-> "text", text |-> t]

ErrorOutcome(k) == [kind |-> k, text |-> <<>>]

Outcomes ==
    {TextOutcome(t) : t \in Responses}
    \cup {ErrorOutcome("ProviderError"), ErrorOutcome("EmptyResponse")}

Raises(o) == o.kind # "text"

(***************************************************************************)
(* BacklinkArticleWorkflow.run                                             *)
(***************************************************************************)
\* the compared runs of SpecObserver; Spec uses "A" alone
Runs == {"A", "B"}

\* the tasks in the order run() declares them, each with the progress report
\* that precedes its declaration
Declarations ==
    <<[task |-> "content_generation_task", step |-> "Step 1/5", progress |-> 20],
      [task |-> "title_validation_task", step |-> "Step 2/6", progress |-> 30],
      [task |-> "backlink_validation_task", step |-> "Step 3/6", progress |-> 45],
      [task |-> "word_count_validation_task", step |-> "Step 4/6", progress |-> 60],
      [task |-> "readability_validation_task", step |-> "Step 5/6", progress |-> 75],
      [task |-> "brand_validation_task", step |-> "Step 6/6", progress |-> 90]>>

\* a crew whose task list lacks the last validator
CrewTasksWithoutBrand ==
    <<"content_generation_task", "title_validation_task",
      "backlink_validation_task", "word_count_validation_task",
      "readability_validation_task">>

\* Crew(tasks=[...], process=Process.sequential)
CrewTasks ==
    <<"content_generation_task", "title_validation_task",
      "backlink_validation_task", "word_count_validation_task",
      "readability_validation_task", "brand_validation_task">>

\* a slip in one context=[...]: the backlink task is handed the synthesis
\* output, and the title repair is lost
TaskContextSkipsTitle(task) ==
    CASE task = "title_validation_task" -> "content_generation_task"
      [] task = "backlink_validation_task" -> "content_generation_task"
      [] task = "word_count_validation_task" -> "backlink_validation_task"
      [] task = "readability_validation_task" -> "word_count_validation_task"
      [] task = "brand_validation_task" -> "readability_validation_task"
      [] OTHER -> None

\* Task(..., context=[...]): the task whose output a task is given
TaskContext(task) ==
    CASE task = "title_validation_task" -> "content_generation_task"
      [] task = "backlink_validation_task" -> "title_validation_task"
      [] task = "word_count_validation_task" -> "backlink_validation_task"
      [] task = "readability_validation_task" -> "word_count_validation_task"
      [] task = "brand_validation_task" -> "readability_validation_task"
      [] OTHER -> None

\* an optional value is <<>> (None) or <<v>>
NoOutputs == [t \in {CrewTasks[i] : i \in 1..Len(CrewTasks)} |-> <<>>]

IdleRun ==
    [pc |-> "idle", caller |-> None, input_data |-> <<>>,
     progress_callback |-> FALSE, declared |-> <<>>, competitor_content |-> <<>>,
     crew |-> <<>>, outputs |-> NoOutputs, calls |-> <<>>, reports |-> <<>>,
     result |-> <<>>, raised |-> None, measured |-> <<>>, fetched |-> <<>>]

\* run(input_data, progress_callback) is entered
NewRun(caller, input_data, progress_callback) ==
    [IdleRun EXCEPT !.pc = "declare", !.caller = caller,
                    !.input_data = input_data,
                    !.progress_callback = progress_callback]

\* if progress_callback: progress_callback(step, progress, log)
Report(rec, step, progress) ==
    IF rec.progress_callback
    THEN [rec EXCEPT !.reports = Append(@, [step |-> step, progress |-> progress])]
    ELSE rec

\* comp['content'][:3000]
CompetitorContentLimit == 3000

\* the competitor sections of the synthesis prompt
RECURSIVE CompetitorContent(_, _)
CompetitorContent(comps, i) ==
    IF i > Len(comps)
    THEN <<>>
    ELSE IF comps[i].content # <<>>
         THEN <<[article |-> i, url |-> comps[i].url,
                 content |-> Take(comps[i].content, CompetitorContentLimit)]>>
              \o CompetitorContent(comps, i + 1)
         ELSE CompetitorContent(comps, i + 1)

\* a first block that fetches the page of a competitor given without content
\* and puts what it fetched into the prompt
DeclareSynthesisFetching(rec) ==
    LET reported == Report(rec, Declarations[1].step, Declarations[1].progress)
        comps == rec.input_data.competitor_articles
        empty == {i \in 1..Len(comps) : comps[i].content = <<>>}
        fetching == [i \in 1..Len(comps) |->
                        IF i \in empty
                        THEN [comps[i] EXCEPT !.content = <<"f">>]
                        ELSE comps[i]]
    IN  IF rec.input_data.missing # None
        THEN [reported EXCEPT !.pc = "errored", !.raised = "KeyError"]
        ELSE [reported EXCEPT
                !.competitor_content = CompetitorContent(fetching, 1),
                !.fetched = IF empty = {} THEN <<>> ELSE <<comps[1].url>>,
                !.declared = <<Declarations[1].task>>]

\* the first block of run(): report, competitor summary, synthesis task.  A
\* missing key raises KeyError here, outside the try block.
DeclareSynthesis(rec) ==
    LET reported == Report(rec, Declarations[1].step, Declarations[1].progress)
    IN  IF rec.input_data.missing # None
        THEN [reported EXCEPT !.pc = "errored", !.raised = "KeyError"]
        ELSE [reported EXCEPT
                !.competitor_content =
                    CompetitorContent(rec.input_data.competitor_articles, 1),
                !.declared = <<Declarations[1].task>>]

\* one of the five validation blocks: report, then the task
DeclareValidation(rec) ==
    LET d == Declarations[Len(rec.declared) + 1]
    IN  [Report(rec, d.step, d.progress) EXCEPT !.declared = Append(@, d.task)]

\* an except branch that returns what the crew had produced so far
except_handler_partial(rec, e) ==
    [Report(rec, "Error occurred", 0) EXCEPT
        !.pc = "errored", !.raised = e,
        !.result = IF rec.calls # <<>> /\ Len(rec.calls) > 1
                   THEN <<[final_article |->
                             rec.outputs[rec.calls[Len(rec.calls) - 1].task][1]]>>
                   ELSE <<>>]

\* `raise e` indented under `if progress_callback:`: without a callback the
\* exception is swallowed and run() returns None
except_handler_raise_under_if(rec, e) ==
    IF rec.progress_callback
    THEN [Report(rec, "Error occurred", 0) EXCEPT
            !.pc = "errored", !.raised = e, !.result = <<>>]
    ELSE [rec EXCEPT !.pc = "done", !.raised = None, !.result = <<>>]

\* an except branch that logs the failure and lets the crew go on
except_handler_continue(rec, e) ==
    [Report(rec, "Error occurred", 0) EXCEPT
        !.pc = IF Len(rec.calls) < Len(rec.crew) THEN "kickoff" ELSE "errored",
        !.raised = e, !.result = <<>>]

\* an except branch that re-raises without telling the callback
except_handler_without_report(rec, e) ==
    [rec EXCEPT !.pc = "errored", !.raised = e, !.result = <<>>]

\* except Exception as e: report the error, raise e
except_handler(rec, e) ==
    [Report(rec, "Error occurred", 0) EXCEPT
        !.pc = "errored", !.raised = e, !.result = <<>>]

\* what the crew hands a task: the output of its context task
TaskInput(rec, task) ==
    IF TaskContext(task) = None THEN <<>> ELSE rec.outputs[TaskContext(task)]

\* a crew that measures the article after each of its tasks
ExecuteNextMeasuring(rec, o) ==
    LET task == rec.crew[Len(rec.calls) + 1]
        called == [rec EXCEPT !.calls = Append(@,
                      [task |-> task, context |-> TaskInput(rec, task), outcome |-> o])]
    IN  IF Raises(o)
        THEN except_handler(called, o.kind)
        ELSE [called EXCEPT !.outputs[task] = <<o.text>>,
                            !.measured = Append(@, o.text),
                            !.pc = IF Len(called.calls) = Len(rec.crew)
                                   THEN "finalize" ELSE "kickoff"]

\* crew.kickoff(), the next task: one call of the LLM with outcome o
ExecuteNext(rec, o) ==
    LET task == rec.crew[Len(rec.calls) + 1]
        called == [rec EXCEPT !.calls = Append(@,
                      [task |-> task, context |-> TaskInput(rec, task), outcome |-> o])]
    IN  IF Raises(o)
        THEN except_handler(called, o.kind)
        ELSE [called EXCEPT !.outputs[task] = <<o.text>>,
                            !.pc = IF Len(called.calls) = Len(rec.crew)
                                   THEN "finalize" ELSE "kickoff"]

\* str(result): the output of the last task of the crew
KickoffResult(rec) == rec.outputs[rec.crew[Len(rec.crew)]][1]

ValidationSummary(input_data, metrics) ==
    [target |-> input_data.target_word_count,
     actual |-> metrics.word_count,
     word_count |-> metrics.word_count,
     sentence_count |-> metrics.sentence_count,
     avg_words_per_sentence |-> FormatOneDecimal(metrics.avg_words_per_sentence),
     backlink_status |-> metrics.backlink_status]

\* a return block that measures the draft of the first task instead of the
\* crew's result
FinishMeasuresDraft(rec) ==
    LET final_article == KickoffResult(rec)
        draft == rec.outputs[rec.crew[1]][1]
        metrics == _calculate_metrics(draft,
                                      rec.input_data.primary_keyword,
                                      rec.input_data.original_article_url)
        validation_summary == ValidationSummary(rec.input_data, metrics)
        reported == Report(Report(rec, "Step 5/5", 95), "Complete", 100)
    IN  [reported EXCEPT
            !.pc = "done",
            !.measured = Append(@, draft),
            !.result = <<[final_article |-> final_article,
                        word_count |-> metrics.word_count,
                        sentence_count |-> metrics.sentence_count,
                        avg_words_per_sentence |-> metrics.avg_words_per_sentence,
                        backlink_status |-> metrics.backlink_status,
                        validation_summary |-> validation_summary]>>]

\* the rest of the try block: reports, metrics, summary and the returned dict
Finish(rec) ==
    LET final_article == KickoffResult(rec)
        metrics == _calculate_metrics(final_article,
                                      rec.input_data.primary_keyword,
                                      rec.input_data.original_article_url)
        validation_summary == ValidationSummary(rec.input_data, metrics)
        reported == Report(Report(rec, "Step 5/5", 95), "Complete", 100)
    IN  [reported EXCEPT
            !.pc = "done",
            !.measured = Append(@, final_article),
            !.result = <<[final_article |-> final_article,
                        word_count |-> metrics.word_count,
                        sentence_count |-> metrics.sentence_count,
                        avg_words_per_sentence |-> metrics.avg_words_per_sentence,
                        backlink_status |-> metrics.backlink_status,
                        validation_summary |-> validation_summary]>>]

(***************************************************************************)
(* The Streamlit session (app.py)                                          *)
(***************************************************************************)
\* number_input("Target Word Count", min_value=800)
MinTargetWordCount == 800

\* slider("Labellerr AI Mentions", min_value=3)
MinMentionCount == 3

\* the widgets' values when Generate is clicked
FormValues ==
    [primary_keyword : {<<>>, KW},
     original_article_url : {<<>>, URL},
     original_article_content : {<<>>, OriginalContent},
     competitor_articles : CompetitorLists]

\* a validation that does not look at the competitors
FormErrorsWithoutCompetitors(form) ==
    (IF form.primary_keyword = <<>> THEN {"Primary keyword is required"} ELSE {})
    \cup (IF form.original_article_url = <<>>
          THEN {"Original article URL is required"} ELSE {})
    \cup (IF form.original_article_content = <<>>
          THEN {"Original article content is required"} ELSE {})

\* the validation of the Generate handler: the list of errors
FormErrors(form) ==
    (IF form.primary_keyword = <<>> THEN {"Primary keyword is required"} ELSE {})
    \cup (IF form.original_article_url = <<>>
          THEN {"Original article URL is required"} ELSE {})
    \cup (IF form.original_article_content = <<>>
          THEN {"Original article content is required"} ELSE {})
    \cup (IF \A i \in 1..Len(form.competitor_articles) :
                form.competitor_articles[i].content = <<>>
          THEN {"At least one competitor article content is required"} ELSE {})

FormInputData(form) ==
    InputData(None, form.primary_keyword, form.original_article_url,
              form.original_article_content, form.competitor_articles,
              MinTargetWordCount, MinMentionCount)

\* "Display Results": the article of the results section, if it is rendered
DisplayResults(sess) ==
    IF sess.generated_article # <<>>
    THEN <<sess.generated_article[1].final_article>>
    ELSE <<>>

\* what the page shows when a script run ends; outcome names the branch the
\* script took
Rendered(sess, outcome) == [article |-> DisplayResults(sess), outcome |-> outcome]

(***************************************************************************)
(* The process environment, the workflows constructed in the process and   *)
(* the content fetcher                                                     *)
(***************************************************************************)
\* the variables of os.environ that __init__ reads or writes
EnvVars == {"GOOGLE_API_KEY", "OPENAI_API_KEY", "GROQ_API_KEY"}

\* the workflow objects of the process
Workflows == {"w1", "w2"}

\* the key each caller passes to its own workflow, and the keys of a .env file
KeyOf(w) == IF w = "w1" THEN "k1" ELSE "k2"

DotEnvKeys == [GOOGLE_API_KEY |-> "google-env", OPENAI_API_KEY |-> "openai-env",
               GROQ_API_KEY |-> "groq-env"]

\* the keys of the callers
ApiKeys == {KeyOf(w) : w \in Workflows}

\* model names, by the part that names the provider
Gemini == <<"g", "e", "m", "i", "n", "i">>

OpenAI == <<"o", "p", "e", "n", "a", "i">>

Groq == <<"g", "r", "o", "q">>

Ollama == <<"o", "l", "l", "a", "m", "a">>

ModelNames == {Gemini, OpenAI, Groq, Ollama}

\* "gemini/gemini-2.0-flash-exp"
DefaultModel == Gemini

\* os.getenv(v): the value, or <<>> for None and for the empty string
getenv(env, v) == env[v]

\* the messages of the two ValueErrors of __init__
KeyNotFound == "API key not found"

LLMFailed == "Failed to initialize LLM"

\* the arguments of a call of the constructor
NoArguments == [api_key |-> <<>>, model |-> <<>>]

\* no workflow object, no exception; given is what the constructor was
\* called with
NoWorkflow == [self |-> <<>>, raised |-> None, message |-> None,
               given |-> NoArguments]

\* the outcome of a call of the constructor, as the process keeps it
WorkflowOf(made) ==
    [self |-> made.self, raised |-> made.raised, message |-> made.message,
     given |-> made.given]

\* a first block of __init__ whose fallback looks for GOOGLE_API_KEY only
ConfigureGoogleOnly(env, api_key, model, provider) ==
    LET given == [api_key |-> api_key, model |-> model]
    IN  IF api_key # <<>> /\ model # <<>>
        THEN [environ |->
                 IF Contains(LowerText(model[1]), <<"o", "p", "e", "n", "a", "i">>)
                 THEN [env EXCEPT !["OPENAI_API_KEY"] = api_key]
                 ELSE IF Contains(LowerText(model[1]), <<"g", "r", "o", "q">>)
                 THEN [env EXCEPT !["GROQ_API_KEY"] = api_key]
                 ELSE IF Contains(LowerText(model[1]), <<"g", "e", "m", "i", "n", "i">>)
                 THEN [env EXCEPT !["GOOGLE_API_KEY"] = api_key]
                 ELSE env,
              self |-> <<[api_key |-> api_key[1], model |-> model[1],
                          provider |-> provider]>>,
              raised |-> None, message |-> None, given |-> given]
        ELSE IF env["GOOGLE_API_KEY"] = <<>>
        THEN [environ |-> env, self |-> <<>>, raised |-> "ValueError",
              message |-> KeyNotFound, given |-> given]
        ELSE [environ |-> env,
              self |-> <<[api_key |-> env["GOOGLE_API_KEY"][1],
                          model |-> <<"g", "e", "m", "i", "n", "i">>,
                          provider |-> "Google Gemini"]>>,
              raised |-> None, message |-> None, given |-> given]

\* the first block of __init__: the fields of self and the environment
\* after it, or the ValueError of the fallback
Configure(env, api_key, model, provider) ==
    LET given == [api_key |-> api_key, model |-> model]
    IN  IF api_key # <<>> /\ model # <<>>
        THEN [environ |->
                 IF Contains(LowerText(model[1]), OpenAI)
                 THEN [env EXCEPT !["OPENAI_API_KEY"] = api_key]
                 ELSE IF Contains(LowerText(model[1]), Groq)
                 THEN [env EXCEPT !["GROQ_API_KEY"] = api_key]
                 ELSE IF Contains(LowerText(model[1]), Gemini)
                 THEN [env EXCEPT !["GOOGLE_API_KEY"] = api_key]
                 ELSE env,
              self |-> <<[api_key |-> api_key[1], model |-> model[1],
                          provider |-> provider]>>,
              raised |-> None, message |-> None, given |-> given]
        ELSE IF getenv(env, "GOOGLE_API_KEY") = <<>> /\ getenv(env, "OPENAI_API_KEY") = <<>>
        THEN [environ |-> env, self |-> <<>>, raised |-> "ValueError",
              message |-> KeyNotFound, given |-> given]
        ELSE [environ |-> env,
              self |-> <<[api_key |-> IF getenv(env, "GOOGLE_API_KEY") # <<>>
                                      THEN getenv(env, "GOOGLE_API_KEY")[1]
                                      ELSE getenv(env, "OPENAI_API_KEY")[1],
                          model |-> DefaultModel,
                          provider |-> "Google Gemini"]>>,
              raised |-> None, message |-> None, given |-> given]

\* BacklinkArticleWorkflow(api_key, model, provider); llm_ok is whether
\* LLM(...) accepts the model and the key
__init__(env, api_key, model, provider, llm_ok) ==
    LET configured == Configure(env, api_key, model, provider)
    IN  IF configured.raised # None
        THEN configured
        ELSE IF ~llm_ok
        THEN [configured EXCEPT !.self = <<>>, !.raised = "ValueError",
                                !.message = LLMFailed]
        ELSE [configured EXCEPT
                 !.self = <<[llm |-> [model |-> configured.self[1].model,
                                      api_key |-> configured.self[1].api_key],
                             api_key |-> configured.self[1].api_key,
                             model |-> configured.self[1].model,
                             provider |-> configured.self[1].provider]>>]

(***************************************************************************)
(* The content fetcher (scraper.py).  The browser, the network and the     *)
(* page are the world a call meets.                                        *)
(***************************************************************************)
Http == <<"h", "t", "t", "p", ":", "/", "/">>

Https == <<"h", "t", "t", "p", "s", ":", "/", "/">>

\* s.startswith(p)
StartsWith(s, p) == Len(s) >= Len(p) /\ SubSeq(s, 1, Len(p)) = p

\* re.match(r'https?://[^\s]+', url) on a URL that starts with a scheme
MatchesUrl(url) ==
    LET rest == IF StartsWith(url, Https) THEN Drop(url, Len(Https))
                ELSE Drop(url, Len(Http))
    IN  rest # <<>> /\ rest[1] \notin Whitespace

\* the URL checks both scrapers start with: the error, or None
ValidateUrl(url) ==
    IF url = <<>> \/ Strip(url) = <<>>
    THEN "Empty URL provided"
    ELSE IF ~StartsWith(Strip(url), Http) /\ ~StartsWith(Strip(url), Https)
    THEN "Invalid URL: Must start with http:// or https://"
    ELSE IF ~MatchesUrl(Strip(url))
    THEN "Invalid URL format"
    ELSE None

\* the characters of s at the positions kept, in order
Pick(s, kept) == [k \in 1..Len(kept) |-> s[kept[k]]]

Positions(s) == [i \in 1..Len(s) |-> i]

\* position i of s lies strictly between two newlines of one block of
\* whitespace
InsideBlankLines(s, i) ==
    /\ s[i] \in Whitespace
    /\ \E a \in 1..(i - 1), b \in (i + 1)..Len(s) :
          /\ s[a] = "\n"
          /\ s[b] = "\n"
          /\ \A k \in a..b : s[k] \in Whitespace

\* re.sub(r'\n\s*\n', '\n\n', s): in a block of whitespace with two or more
\* newlines, what spans from the first newline to the last becomes two
\* newlines
CollapseBlankLines(s) ==
    Pick(s, SelectSeq(Positions(s), LAMBDA i : ~InsideBlankLines(s, i)))

\* re.sub(r' +', ' ', s): a space followed by a space is dropped
CollapseSpaces(s) ==
    Pick(s, SelectSeq(Positions(s),
                      LAMBDA i : ~(s[i] = " " /\ i < Len(s) /\ s[i + 1] = " ")))

\* a scraper's result before anything is found
NoResult == [title |-> <<>>, content |-> <<>>, error |-> None]

\* the loop over content_selectors: found holds the text of the first
\* element of each selector that matched, in the order of the selectors
RECURSIVE SelectContent(_, _)
SelectContent(found, content_text) ==
    IF found = <<>>
    THEN content_text
    ELSE IF Len(Head(found)) > 100
         THEN Head(found)
         ELSE SelectContent(Tail(found), Head(found))

\* the try block of scrape_article_selenium on a page the driver loaded
ExtractWithDriver(page) ==
    LET title == IF page.h1 # <<>> THEN Strip(page.h1[1]) ELSE page.title
        selected == SelectContent(page.found, <<>>)
        content_text ==
            IF selected = <<>> \/ Len(selected) < 100
            THEN IF page.body # <<>> THEN page.body[1] ELSE page.page_source
            ELSE selected
    IN  IF content_text # <<>>
        THEN [title |-> title,
              content |-> Strip(CollapseSpaces(CollapseBlankLines(content_text))),
              error |-> None]
        ELSE [title |-> title, content |-> <<>>,
              error |-> "Could not extract content from the page"]

scrape_article_selenium(url, world) ==
    IF ValidateUrl(url) # None
    THEN [NoResult EXCEPT !.error = ValidateUrl(url)]
    ELSE IF ~world.selenium_installed
    THEN [NoResult EXCEPT !.error = "Selenium not installed. Run: pip install selenium"]
    ELSE IF world.driver = <<>>
    THEN [NoResult EXCEPT !.error = "Selenium scraping error"]
    ELSE ExtractWithDriver(world.driver[1])

\* '\n\n'.join(texts)
RECURSIVE JoinParagraphs(_)
JoinParagraphs(texts) ==
    IF texts = <<>>
    THEN <<>>
    ELSE IF Len(texts) = 1
         THEN Head(texts)
         ELSE Head(texts) \o <<"\n", "\n">> \o JoinParagraphs(Tail(texts))

\* [elem.get_text().strip() for elem in text_elements if elem.get_text().strip()]
RECURSIVE StrippedTexts(_)
StrippedTexts(elements) ==
    IF elements = <<>>
    THEN <<>>
    ELSE IF Strip(Head(elements)) # <<>>
         THEN <<Strip(Head(elements))>> \o StrippedTexts(Tail(elements))
         ELSE StrippedTexts(Tail(elements))

\* the parsing part of _scrape_with_requests on a document that arrived
ExtractFromDocument(doc) ==
    LET title == IF doc.title_tag # <<>> THEN Strip(doc.title_tag[1]) ELSE <<>>
        content == IF doc.container
                   THEN CollapseSpaces(CollapseBlankLines(
                            JoinParagraphs(StrippedTexts(doc.text_elements))))
                   ELSE <<>>
    IN  [title |-> title, content |-> content,
         error |-> IF content = <<>>
                   THEN "Could not extract content from the page"
                   ELSE None]

\* the exceptions of requests.get and of the parsing
RequestErrors ==
    [Timeout |-> "Request timeout", RequestException |-> "Request failed",
     Exception |-> "Scraping error"]

_scrape_with_requests(url, world) ==
    IF ValidateUrl(url) # None
    THEN [NoResult EXCEPT !.error = ValidateUrl(url)]
    ELSE IF world.response.raised # None
    THEN [NoResult EXCEPT !.error = RequestErrors[world.response.raised]]
    ELSE ExtractFromDocument(world.response.document[1])

\* "Selenium not installed" in error
SeleniumMissing(error) ==
    error = "Selenium not installed. Run: pip install selenium"

\* a scrape_article that falls back on every error of the Selenium scrape
scrape_article_falling_back_always(url, world) ==
    LET result == scrape_article_selenium(url, world)
    IN  IF result.error # None
        THEN _scrape_with_requests(url, world)
        ELSE result

scrape_article(url, world) ==
    LET result == scrape_article_selenium(url, world)
    IN  IF result.error # None /\ ~SeleniumMissing(result.error)
        THEN _scrape_with_requests(url, world)
        ELSE result

\* page texts: nothing visible, a few characters, 100 and 101 characters
Blank == <<" ">>

Short == <<"a", "b", " ", " ", "c", "\n", " ", "\n", "d">>

Exactly100 == [i \in 1..100 |-> "x"]

Long101 == [i \in 1..101 |-> "x"]

PageSource == <<"<", "h", "t", "m", "l", ">">>

\* what the driver finds on a page it loaded
Pages ==
    [h1 : {<<>>, <<Short>>}, title : {<<"t">>},
     found : {<<>>, <<Short>>, <<Short, Long101>>, <<Exactly100, Blank>>},
     body : {<<>>, <<EmptyText>>, <<Blank>>, <<Short>>},
     page_source : {PageSource}]

\* what requests.get and BeautifulSoup find
Documents ==
    [title_tag : {<<>>, <<Short>>}, container : BOOLEAN,
     text_elements : {<<>>, <<Blank>>, <<Short, Blank, Short>>}]

Responses_ ==
    {[raised |-> e, document |-> <<>>] : e \in DOMAIN RequestErrors}
    \cup {[raised |-> None, document |-> <<d>>] : d \in Documents}

\* the worlds a call of scrape_article can meet: driver is <<>> when
\* anything in the Selenium block raises
Worlds ==
    [selenium_installed : BOOLEAN,
     driver : {<<>>} \cup {<<p>> : p \in Pages},
     response : Responses_]

\* the URLs a caller can pass
Urls ==
    {<<>>, <<" ">>, <<"w", "w", "w">>, Http, Http \o <<" ", "h">>,
     Http \o <<"h">>, <<" ">> \o Https \o <<"h">> \o <<"\n">>}

(***************************************************************************)
(* The LLM client (llm_client.py)                                          *)
(***************************************************************************)
Google == <<"g", "o", "o", "g", "l", "e">>

\* provider tags a caller can pass: the three backends in several spellings,
\* a tag of no backend, the empty tag
ProviderTags ==
    {Gemini, <<"G", "o", "o", "g", "l", "e">>, <<"O", "p", "e", "n", "A", "I">>,
     Groq, Ollama, <<>>}

\* the chain of substring tests of __init__ and generate on self.provider:
\* the backend it selects, or None
Backend(provider) ==
    IF Contains(provider, Gemini) \/ Contains(provider, Google)
    THEN "gemini"
    ELSE IF Contains(provider, OpenAI)
    THEN "openai"
    ELSE IF Contains(provider, Groq)
    THEN "groq"
    ELSE None

\* LLMClient(provider, api_key, model); import_ok is whether the backend's
\* package can be imported
LLMClient(provider, api_key, model, import_ok) ==
    LET tag == LowerText(provider)
    IN  IF Backend(tag) # None /\ ~import_ok
        THEN [self |-> <<>>, raised |-> "ImportError"]
        ELSE [self |-> <<[provider |-> tag, api_key |-> api_key, model |-> model,
                          client |-> Backend(tag)]>>,
              raised |-> None]

\* what generate hands back: a text, an exception, or None
Returns(value) == [kind |-> "text", text |-> value]

ReturnsNone == [kind |-> "None", text |-> <<>>]

RaisesException == [kind |-> "Exception", text |-> <<>>]

\* generate(prompt, temperature); outcome is what the backend's call yields
generate(self, outcome) ==
    IF Backend(self.provider) = None
    THEN ReturnsNone
    ELSE IF Raises(outcome)
    THEN RaisesException
    ELSE Returns(outcome.text)

\* what a backend's call can yield
BackendOutcomes ==
    {TextOutcome(t) : t \in Responses} \cup {ErrorOutcome("ProviderError")}

\* no client object, no call
IdleClient == [self |-> <<>>, raised |-> None, result |-> <<>>]

\* the widgets of a page nobody has typed into
EmptyWidgets ==
    [primary_keyword |-> <<>>, original_article_url |-> <<>>,
     original_article_content |-> <<>>,
     competitor_articles |-> [i \in 1..3 |-> [url |-> <<>>, content |-> <<>>]],
     enable_scraping |-> FALSE]

\* scrape_article has not been called
IdleFetch == [url |-> <<>>, world |-> <<>>, result |-> <<>>]

(***************************************************************************)
(* Initial state and actions                                               *)
(***************************************************************************)
Init ==
    /\ run = [r \in Runs |-> IdleRun]
    /\ oracle = <<>>
    /\ session = [generated_article |-> <<>>, processing |-> FALSE]
    /\ screen = [article |-> <<>>, outcome |-> "none"]
    /\ environ = [v \in EnvVars |-> <<>>]
    /\ workflow = [w \in Workflows |-> NoWorkflow]
    /\ fetch = IdleFetch
    /\ widgets = EmptyWidgets
    /\ client = IdleClient

\* no call of run() is in progress in r, and none waits for the page
Free(r) == run[r].pc \in {"idle", "done", "errored"} /\ run[r].caller # "ui"

\* a direct caller enters run()
CallRun(r) ==
    /\ Free(r)
    /\ \E input_data \in Requests, progress_callback \in BOOLEAN :
          run' = [run EXCEPT ![r] = NewRun("api", input_data, progress_callback)]
    /\ oracle' = <<>>
    /\ UNCHANGED <<session, screen>>
    /\ UNCHANGED process

\* Task 1
Synthesis(r) ==
    /\ run[r].pc = "declare"
    /\ run[r].declared = <<>>
    /\ run' = [run EXCEPT ![r] = DeclareSynthesis(run[r])]
    /\ UNCHANGED <<oracle, session, screen>>
    /\ UNCHANGED process

\* Tasks 2 to 6
Validation(r) ==
    /\ run[r].pc = "declare"
    /\ run[r].declared # <<>>
    /\ Len(run[r].declared) < Len(Declarations)
    /\ run' = [run EXCEPT ![r] = DeclareValidation(run[r])]
    /\ UNCHANGED <<oracle, session, screen>>
    /\ UNCHANGED process

\* crew = Crew(agents=[...], tasks=[...], process=Process.sequential)
CreateCrew(r) ==
    /\ run[r].pc = "declare"
    /\ Len(run[r].declared) = Len(Declarations)
    /\ run' = [run EXCEPT ![r].crew = CrewTasks, ![r].pc = "kickoff"]
    /\ UNCHANGED <<oracle, session, screen>>
    /\ UNCHANGED process

\* crew.kickoff() runs its next task.  The compared runs of SpecObserver get
\* the same outcome at the same task: the first to arrive draws it.
ExecuteTask(r) ==
    /\ run[r].pc = "kickoff"
    /\ LET i == Len(run[r].calls) + 1
       IN  \E o \in Outcomes :
              /\ i <= Len(oracle) => o = oracle[i]
              /\ oracle' = IF i <= Len(oracle) THEN oracle ELSE Append(oracle, o)
              /\ run' = [run EXCEPT ![r] = ExecuteNext(run[r], o)]
    /\ UNCHANGED <<session, screen>>
    /\ UNCHANGED process

\* kickoff returned: metrics, summary, return
Finalize(r) ==
    /\ run[r].pc = "finalize"
    /\ run' = [run EXCEPT ![r] = Finish(run[r])]
    /\ UNCHANGED <<oracle, session, screen>>
    /\ UNCHANGED process

\* the key, the model and the provider the page passes to the workflow it
\* constructs: the first choice of the provider radio
PageKey == KeyOf("w1")

PageModel == Gemini

PageProvider == "Google Gemini (Recommended)"

\* workflow = BacklinkArticleWorkflow(api_key=..., model=..., provider=...)
PageWorkflow(llm_ok) ==
    __init__(environ, <<PageKey>>, <<PageModel>>, PageProvider, llm_ok)

\* Generate is clicked and the form is incomplete
ClickGenerateInvalidOn(form) ==
    /\ Free("A")
    /\ ~session.processing
    /\ FormErrors(form) # {}
    /\ screen' = Rendered(session, "invalid")
    /\ UNCHANGED <<run, oracle, session>>
    /\ UNCHANGED process

\* Generate is clicked, the form is complete, and the constructor of the
\* workflow raises (LLM(...) failed): the except branch
ClickGenerateNoWorkflowOn(form) ==
    /\ Free("A")
    /\ ~session.processing
    /\ FormErrors(form) = {}
    /\ environ' = PageWorkflow(FALSE).environ
    /\ workflow' = [workflow EXCEPT !["w1"] =
                       WorkflowOf(PageWorkflow(FALSE))]
    /\ session' = [session EXCEPT !.processing = FALSE]
    /\ screen' = Rendered(session', "no_workflow")
    /\ UNCHANGED <<run, oracle, fetch, widgets, client>>

\* Generate is clicked, the form is complete: the workflow is constructed
\* and run() is entered with update_progress
ClickGenerateOn(form) ==
    /\ Free("A")
    /\ ~session.processing
    /\ FormErrors(form) = {}
    /\ environ' = PageWorkflow(TRUE).environ
    /\ workflow' = [workflow EXCEPT !["w1"] =
                       WorkflowOf(PageWorkflow(TRUE))]
    /\ run' = [run EXCEPT !["A"] = NewRun("ui", FormInputData(form), TRUE)]
    /\ oracle' = <<>>
    /\ session' = [session EXCEPT !.processing = TRUE]
    /\ screen' = [article |-> <<>>, outcome |-> "running"]
    /\ UNCHANGED <<fetch, widgets, client>>

\* the three outcomes of a click, on whatever the form holds
ClickGenerateInvalid == \E form \in FormValues : ClickGenerateInvalidOn(form)

ClickGenerateNoWorkflow == \E form \in FormValues : ClickGenerateNoWorkflowOn(form)

ClickGenerate == \E form \in FormValues : ClickGenerateOn(form)

\* run() returned to the page: store the result and rerun the script
RunReturned ==
    /\ run["A"].caller = "ui"
    /\ run["A"].pc = "done"
    /\ session' = [generated_article |-> run["A"].result, processing |-> FALSE]
    /\ screen' = Rendered(session', "success")
    /\ run' = [run EXCEPT !["A"] = IdleRun]
    /\ oracle' = <<>>
    /\ UNCHANGED process

\* an except branch that shows the error and leaves the flag as it is
RunRaisedKeepingFlag ==
    /\ run["A"].caller = "ui"
    /\ run["A"].pc = "errored"
    /\ session' = session
    /\ screen' = Rendered(session', "run_error")
    /\ run' = [run EXCEPT !["A"] = IdleRun]
    /\ oracle' = <<>>
    /\ UNCHANGED process

\* run() raised: the except branch, then the rest of the script
RunRaised ==
    /\ run["A"].caller = "ui"
    /\ run["A"].pc = "errored"
    /\ session' = [session EXCEPT !.processing = FALSE]
    /\ screen' = Rendered(session', "run_error")
    /\ run' = [run EXCEPT !["A"] = IdleRun]
    /\ oracle' = <<>>
    /\ UNCHANGED process

RunStep(r) ==
    \/ Synthesis(r)
    \/ Validation(r)
    \/ CreateCrew(r)
    \/ ExecuteTask(r)
    \/ Finalize(r)

\* a direct caller of run(), one call at a time
Next ==
    \/ CallRun("A")
    \/ RunStep("A")

Spec == Init /\ [][Next]_vars

\* one page: every call of run() comes from the Generate handler
NextPage ==
    \/ ClickGenerateInvalid
    \/ ClickGenerateNoWorkflow
    \/ ClickGenerate
    \/ RunStep("A")
    \/ RunReturned
    \/ RunRaised

SpecPage == Init /\ [][NextPage]_vars

\* the same call of run() made twice, with a progress callback (A) and
\* without one (B), against the same LLM outcomes
CallBoth ==
    /\ \A r \in Runs : Free(r)
    /\ \E input_data \in Requests :
          run' = [r \in Runs |-> NewRun("api", input_data, r = "A")]
    /\ oracle' = <<>>
    /\ UNCHANGED <<session, screen>>
    /\ UNCHANGED process

NextObserver ==
    \/ CallBoth
    \/ \E r \in Runs : RunStep(r)

SpecObserver == Init /\ [][NextObserver]_vars

(***************************************************************************)
(* The return block of run() on the texts a crew can hand back: the crew's *)
(* last task has just returned, with any text built from a few pieces.     *)
(***************************************************************************)
\* a word of ten characters that ends in the URL, a word of eleven that ends
\* in the URL in another case, two words in twelve characters
W10 == [i \in 1..7 |-> "a"] \o URL

W11 == [i \in 1..8 |-> "a"] \o <<"U", "r", "l">>

T12 == [i \in 1..12 |-> IF i = 6 THEN " " ELSE "a"]

Pieces == {<<".">>, <<"!", "\n">>, <<" ">>, W10, W11, T12}

\* the most pieces of a text
MaxPieces == 5

RECURSIVE Join(_)
Join(ps) == IF ps = <<>> THEN <<>> ELSE Head(ps) \o Join(Tail(ps))

ArticleTexts == {Join(ps) : ps \in UNION {[1..n -> Pieces] : n \in 0..MaxPieces}}

MetricsRequest ==
    InputData(None, KW, URL, OriginalContent, FullList, TargetWords, TargetMentions)

\* run() up to crew.kickoff()
RECURSIVE DeclareAll(_)
DeclareAll(rec) ==
    IF Len(rec.declared) = Len(Declarations)
    THEN [rec EXCEPT !.crew = CrewTasks, !.pc = "kickoff"]
    ELSE DeclareAll(DeclareValidation(rec))

\* crew.kickoff() with the given outcomes, one per task
RECURSIVE Kickoff(_, _)
Kickoff(rec, outcomes) ==
    IF outcomes = <<>> \/ rec.pc # "kickoff"
    THEN rec
    ELSE Kickoff(ExecuteNext(rec, Head(outcomes)), Tail(outcomes))

\* the outcomes of a crew whose last task returns text
OutcomesEndingIn(text) ==
    [i \in 1..Len(CrewTasks) |->
        IF i = Len(CrewTasks) THEN TextOutcome(text) ELSE TextOutcome(GoodArticle)]

InitMetrics ==
    /\ \E text \in ArticleTexts :
          /\ oracle = OutcomesEndingIn(text)
          /\ run = [r \in Runs |->
                      IF r = "A"
                      THEN Kickoff(DeclareAll(DeclareSynthesis(
                               NewRun("api", MetricsRequest, TRUE))), oracle)
                      ELSE IdleRun]
    /\ session = [generated_article |-> <<>>, processing |-> FALSE]
    /\ screen = [article |-> <<>>, outcome |-> "none"]
    /\ environ = [v \in EnvVars |-> <<>>]
    /\ workflow = [w \in Workflows |-> NoWorkflow]
    /\ fetch = IdleFetch
    /\ widgets = EmptyWidgets
    /\ client = IdleClient

NextMetrics == Finalize("A")

SpecMetrics == InitMetrics /\ [][NextMetrics]_vars

(***************************************************************************)
(* Two callers in one process, each constructing its own workflow with its *)
(* own key; the environment may have been loaded from a .env file.         *)
(***************************************************************************)
InitConstruct ==
    /\ run = [r \in Runs |-> IdleRun]
    /\ oracle = <<>>
    /\ session = [generated_article |-> <<>>, processing |-> FALSE]
    /\ screen = [article |-> <<>>, outcome |-> "none"]
    /\ \E set \in SUBSET {"GOOGLE_API_KEY", "OPENAI_API_KEY"} :
          environ = [v \in EnvVars |-> IF v \in set THEN <<DotEnvKeys[v]>> ELSE <<>>]
    /\ workflow = [w \in Workflows |-> NoWorkflow]
    /\ fetch = IdleFetch
    /\ widgets = EmptyWidgets
    /\ client = IdleClient

\* workflow w is constructed, with the caller's key or none, a model or none
Construct(w) ==
    /\ \E api_key \in {<<>>, <<KeyOf(w)>>},
          model \in {<<>>} \cup {<<m>> : m \in ModelNames},
          llm_ok \in BOOLEAN :
          LET made == __init__(environ, api_key, model, None, llm_ok)
          IN  /\ environ' = made.environ
              /\ workflow' = [workflow EXCEPT ![w] = WorkflowOf(made)]
    /\ UNCHANGED <<run, oracle, session, screen, fetch, widgets, client>>

NextConstruct == \E w \in Workflows : Construct(w)

SpecConstruct == InitConstruct /\ [][NextConstruct]_vars

(***************************************************************************)
(* Calls of the content fetcher                                            *)
(***************************************************************************)
\* scrape_article(url) is called and returns.  The function keeps nothing
\* between calls, so one call from the idle state stands for every call.
Scrape ==
    /\ fetch = IdleFetch
    /\ \E url \in Urls, world \in Worlds :
          fetch' = [url |-> <<url>>, world |-> <<world>>,
                    result |-> <<scrape_article(url, world)>>]
    /\ UNCHANGED <<run, oracle, session, screen, environ, workflow, widgets, client>>

NextScrape == Scrape

SpecScrape == Init /\ [][NextScrape]_vars

(***************************************************************************)
(* The form of the page: typing, the Scrape buttons and the Generate       *)
(* button, up to the start of a run.  The session may hold the article of  *)
(* an earlier run.                                                         *)
(***************************************************************************)
\* a URL a competitor field can hold
CompetitorUrl == Http \o <<"h">>

\* the worlds a Scrape button meets: no answer at all, Selenium missing, a
\* page with a short body
PageWorlds ==
    {[selenium_installed |-> TRUE, driver |-> <<>>,
      response |-> [raised |-> "RequestException", document |-> <<>>]],
     [selenium_installed |-> FALSE, driver |-> <<>>,
      response |-> [raised |-> "Timeout", document |-> <<>>]],
     [selenium_installed |-> TRUE,
      driver |-> <<[h1 |-> <<>>, title |-> <<"t">>, found |-> <<>>,
                    body |-> <<Short>>, page_source |-> PageSource]>>,
      response |-> [raised |-> "Timeout", document |-> <<>>]]}

\* a form with every field filled in
CompleteForm ==
    [primary_keyword |-> KW, original_article_url |-> URL,
     original_article_content |-> OriginalContent,
     competitor_articles |-> FullList]

\* the result an earlier run stored in the session
EarlierResult ==
    Finish(Kickoff(DeclareAll(DeclareSynthesis(
               NewRun("ui", FormInputData(CompleteForm), TRUE))),
           OutcomesEndingIn(GoodArticle))).result

InitForm ==
    /\ run = [r \in Runs |-> IdleRun]
    /\ oracle = <<>>
    /\ \E earlier \in {<<>>, EarlierResult} :
          session = [generated_article |-> earlier, processing |-> FALSE]
    /\ screen = Rendered(session, "none")
    /\ environ = [v \in EnvVars |-> <<>>]
    /\ workflow = [w \in Workflows |-> NoWorkflow]
    /\ fetch = IdleFetch
    /\ widgets = [EmptyWidgets EXCEPT !.original_article_url = URL,
                                      !.original_article_content = OriginalContent]
    /\ client = IdleClient

\* the script is not inside the Generate handler
PageIdle == Free("A") /\ ~session.processing

\* the user changes one widget; the script reruns with no button pressed
TypeInputs ==
    /\ PageIdle
    /\ \/ \E v \in {<<>>, KW} : widgets' = [widgets EXCEPT !.primary_keyword = v]
       \/ \E v \in {<<>>, URL} : widgets' = [widgets EXCEPT !.original_article_url = v]
       \/ \E v \in {<<>>, OriginalContent} :
             widgets' = [widgets EXCEPT !.original_article_content = v]
       \/ \E i \in 1..3, v \in {<<>>, CompetitorUrl} :
             widgets' = [widgets EXCEPT !.competitor_articles[i].url = v]
       \/ \E i \in 1..3, v \in {<<>>, CompetitorText} :
             widgets' = [widgets EXCEPT !.competitor_articles[i].content = v]
       \/ widgets' = [widgets EXCEPT !.enable_scraping = ~@]
    /\ screen' = Rendered(session, "none")
    /\ UNCHANGED <<run, oracle, session, environ, workflow, fetch, client>>

\* a Scrape button that empties every competitor content on an error
ClickScrapeClearingAll(i) ==
    /\ PageIdle
    /\ widgets.enable_scraping
    /\ widgets.competitor_articles[i].url # <<>>
    /\ \E world \in PageWorlds :
          LET url == widgets.competitor_articles[i].url
              result == scrape_article(url, world)
          IN  /\ fetch' = [url |-> <<url>>, world |-> <<world>>, result |-> <<result>>]
              /\ IF result.error # None
                 THEN /\ widgets' = [widgets EXCEPT !.competitor_articles =
                                        [j \in 1..3 |-> [@[j] EXCEPT !.content = <<>>]]]
                      /\ screen' = Rendered(session, "scrape_error")
                 ELSE /\ widgets' = [widgets EXCEPT
                                        !.competitor_articles[i].content = result.content]
                      /\ screen' = Rendered(session, "scraped")
    /\ UNCHANGED <<run, oracle, session, environ, workflow, client>>

\* "Scrape Content i" is clicked: shown when scraping is enabled and URL i
\* is filled in
ClickScrape(i) ==
    /\ PageIdle
    /\ widgets.enable_scraping
    /\ widgets.competitor_articles[i].url # <<>>
    /\ \E world \in PageWorlds :
          LET url == widgets.competitor_articles[i].url
              result == scrape_article(url, world)
          IN  /\ fetch' = [url |-> <<url>>, world |-> <<world>>, result |-> <<result>>]
              /\ IF result.error # None
                 THEN /\ widgets' = [widgets EXCEPT
                                        !.competitor_articles[i].content = <<>>]
                      /\ screen' = Rendered(session, "scrape_error")
                 ELSE /\ widgets' = [widgets EXCEPT
                                        !.competitor_articles[i].content = result.content]
                      /\ screen' = Rendered(session, "scraped")
    /\ UNCHANGED <<run, oracle, session, environ, workflow, client>>

NextForm ==
    \/ TypeInputs
    \/ \E i \in 1..3 : ClickScrape(i)
    \/ ClickGenerateInvalidOn(widgets)
    \/ ClickGenerateNoWorkflowOn(widgets)
    \/ ClickGenerateOn(widgets)

SpecForm == InitForm /\ [][NextForm]_vars

(***************************************************************************)
(* An LLM client is constructed and asked once                             *)
(***************************************************************************)
NewClient ==
    /\ client = IdleClient
    /\ \E provider \in ProviderTags, api_key \in ApiKeys,
          model \in ModelNames, import_ok \in BOOLEAN :
          LET made == LLMClient(provider, api_key, model, import_ok)
          IN  client' = [self |-> made.self, raised |-> made.raised, result |-> <<>>]
    /\ UNCHANGED <<run, oracle, session, screen, environ, workflow, fetch, widgets>>

Generate ==
    /\ client.self # <<>>
    /\ client.result = <<>>
    /\ \E outcome \in BackendOutcomes :
          client' = [client EXCEPT !.result = <<generate(client.self[1], outcome)>>]
    /\ UNCHANGED <<run, oracle, session, screen, environ, workflow, fetch, widgets>>

NextClient ==
    \/ NewClient
    \/ Generate

SpecClient == Init /\ [][NextClient]_vars

(***************************************************************************)
(* The pipeline states and the checklist of the specification              *)
(***************************************************************************)
PipelineStates ==
    <<"Generating", "ValidatingTitle", "ValidatingBacklink", "ValidatingLength",
      "ValidatingReadability", "ValidatingBrand", "Done">>

\* the state in which a task's LLM call is made
TaskState(task) ==
    CASE task = "content_generation_task" -> "Generating"
      [] task = "title_validation_task" -> "ValidatingTitle"
      [] task = "backlink_validation_task" -> "ValidatingBacklink"
      [] task = "word_count_validation_task" -> "ValidatingLength"
      [] task = "readability_validation_task" -> "ValidatingReadability"
      [] task = "brand_validation_task" -> "ValidatingBrand"

\* the state a call of run() is in: Generating from its entry until the
\* first task has answered, then the state of the task the crew runs next
State(rec) ==
    CASE rec.pc = "idle" -> "Idle"
      [] rec.pc = "declare" -> "Generating"
      [] rec.pc = "kickoff" -> TaskState(rec.crew[Len(rec.calls) + 1])
      [] rec.pc \in {"finalize", "done"} -> "Done"
      [] rec.pc = "errored" -> "Errored"

\* str.count(sub): the occurrences of sub in s, left to right, not overlapping
RECURSIVE CountOccurrences(_, _)
CountOccurrences(s, sub) ==
    IF Len(s) < Len(sub)
    THEN 0
    ELSE IF Take(s, Len(sub)) = sub
         THEN 1 + CountOccurrences(Drop(s, Len(sub)), sub)
         ELSE CountOccurrences(Tail(s), sub)

\* the five rules of the checklist, on an article text and a request
TitleHasKeyword(text, req) ==
    Contains(LowerText(Take(text, 200)), LowerText(req.primary_keyword))

BacklinkPresent(text, req) == Contains(text, req.original_article_url)

WordCountMet(text, req) == Len(SplitWs(text, <<>>)) >= req.target_word_count

SentenceLengthInBand(text, req) ==
    LET avg == _calculate_metrics(text, req.primary_keyword,
                                  req.original_article_url).avg_words_per_sentence
    IN  800 <= avg /\ avg <= 1500

BrandMentionsMet(text, req) ==
    CountOccurrences(LowerText(text), LowerText(BrandName))
        >= req.labellerr_mention_count

Checklist(text, req) ==
    /\ TitleHasKeyword(text, req)
    /\ BacklinkPresent(text, req)
    /\ WordCountMet(text, req)
    /\ SentenceLengthInBand(text, req)
    /\ BrandMentionsMet(text, req)

\* the rule a validating state is about
RuleSatisfied(state, text, req) ==
    CASE state = "ValidatingTitle" -> TitleHasKeyword(text, req)
      [] state = "ValidatingBacklink" -> BacklinkPresent(text, req)
      [] state = "ValidatingLength" -> WordCountMet(text, req)
      [] state = "ValidatingReadability" -> SentenceLengthInBand(text, req)
      [] state = "ValidatingBrand" -> BrandMentionsMet(text, req)

(***************************************************************************)
(* Claims                                                                  *)
(***************************************************************************)

\* C1: the calls of a run are made in the order of the pipeline states, one
\* state after the other, each call on the text the call before it returned;
\* the returned article is the text of the last call; and a run's state only
\* ever moves to the next pipeline state or to Errored (a new call of run()
\* starts again at Generating).
C1_Chain(rec) ==
    /\ \A i \in 1..Len(rec.calls) :
          /\ TaskState(rec.calls[i].task) = PipelineStates[i]
          /\ rec.calls[i].context =
                IF i = 1 THEN <<>> ELSE <<rec.calls[i - 1].outcome.text>>
    /\ rec.pc = "done" =>
          /\ Len(rec.calls) = Len(PipelineStates) - 1
          /\ rec.result[1].final_article = rec.calls[Len(rec.calls)].outcome.text

C1_Step ==
    \A r \in Runs :
        LET a == State(run[r])
            b == State(run'[r])
        IN  \/ a = b
            \/ b = "Errored"
            \/ \E i \in 1..(Len(PipelineStates) - 1) :
                  a = PipelineStates[i] /\ b = PipelineStates[i + 1]
            \/ a \in {"Idle", "Done", "Errored"} /\ b \in {"Generating", "Idle"}

C1_PipelineOrder ==
    /\ [](\A r \in Runs : C1_Chain(run[r]))
    /\ [][C1_Step]_vars

\* a run reached Done and two successive steps returned different texts
C1_Witness ==
    /\ run["A"].pc = "done"
    /\ run["A"].calls[1].outcome.text = PoorArticle
    /\ run["A"].calls[2].outcome.text = GoodArticle
    /\ run["A"].calls[3].context = <<GoodArticle>>

\* C2: once an LLM call of a run has failed the run is Errored, that call is
\* its last, nothing is returned, and neither the finalizing report nor the
\* completion report was made.
C2_FailureAborts ==
    \A r \in Runs :
        \A i \in 1..Len(run[r].calls) :
            Raises(run[r].calls[i].outcome) =>
                /\ run[r].pc = "errored"
                /\ i = Len(run[r].calls)
                /\ run[r].result = <<>>
                /\ \A k \in 1..Len(run[r].reports) :
                      run[r].reports[k].progress \notin {95, 100}

\* the call of the ValidatingBacklink state failed after two steps produced
\* an article
C2_Witness ==
    /\ run["A"].pc = "errored"
    /\ Len(run["A"].calls) = 3
    /\ run["A"].calls[3].task = "backlink_validation_task"
    /\ run["A"].calls[3].outcome.kind = "ProviderError"
    /\ run["A"].outputs["title_validation_task"] = <<GoodArticle>>

\* a request run() should refuse
Malformed(input_data) ==
    \/ input_data.missing # None
    \/ input_data.primary_keyword = <<>>
    \/ input_data.target_word_count <= 0

\* a run on a well-formed request
WellFormedRun(rec) == rec.pc # "idle" /\ ~Malformed(rec.input_data)

\* C3 (as claimed): the article a run on a well-formed request returns at
\* Done, if it is not empty, satisfies the five rules of the checklist for
\* that request.
C3_ChecklistAtDone ==
    \A r \in Runs :
        (/\ WellFormedRun(run[r])
         /\ run[r].pc = "done"
         /\ run[r].result[1].final_article # <<>>) =>
            Checklist(run[r].result[1].final_article, run[r].input_data)

C5_EmptyResponseFails ==
    \A r \in Runs :
        \A i \in 1..Len(run[r].calls) :
            (WellFormedRun(run[r]) /\ run[r].calls[i].outcome.text = <<>>) =>
                run[r].pc = "errored" /\ run[r].result = <<>>

\* C6 (as claimed): a run on a malformed request never calls the LLM.
C6_MalformedFailsFast ==
    \A r \in Runs :
        (run[r].pc # "idle" /\ Malformed(run[r].input_data)) =>
            run[r].calls = <<>>

\* C7 (as claimed): when run() raised, the page that the script run leaves
\* shows no generated article text.
C7_NoArticleAfterError ==
    screen.outcome = "run_error" =>
        ~(screen.article # <<>> /\ screen.article[1] # <<>>)

Ended(rec) == rec.pc \in {"done", "errored"}

\* C8: of two calls of run() on the same request and the same LLM outcomes,
\* one with a progress callback and one without, the calls made agree as far
\* as both have got, the states agree whenever both have made as many calls
\* and both or neither have ended, and once both have ended they ended alike: same state, same calls, same
\* returned value, same exception.  The run without a callback reports
\* nothing.
C8_CallbackIsObserver ==
    LET a == run["A"]
        b == run["B"]
    IN  /\ \A i \in 1..Min(Len(a.calls), Len(b.calls)) : a.calls[i] = b.calls[i]
        /\ (Len(a.calls) = Len(b.calls) /\ Ended(a) = Ended(b)) => State(a) = State(b)
        /\ (Ended(a) /\ Ended(b)) =>
              /\ a.pc = b.pc
              /\ a.calls = b.calls
              /\ a.result = b.result
              /\ a.raised = b.raised
        /\ b.reports = <<>>

\* both runs returned, one having reported eight times and the other never
C8_Witness ==
    /\ run["A"].pc = "done"
    /\ run["B"].pc = "done"
    /\ Len(run["A"].reports) = 8
    /\ run["B"].reports = <<>>
    /\ run["A"].result # <<>>

\* the state a progress report announces
ReportedState(report) ==
    CASE report.progress = 20 -> "Generating"
      [] report.progress = 30 -> "ValidatingTitle"
      [] report.progress = 45 -> "ValidatingBacklink"
      [] report.progress = 60 -> "ValidatingLength"
      [] report.progress = 75 -> "ValidatingReadability"
      [] report.progress = 90 -> "ValidatingBrand"
      [] report.progress \in {95, 100} -> "Done"
      [] report.progress = 0 -> "Errored"

\* the number of LLM calls completed before a state is entered
CallsBefore(state) ==
    CASE state = "Generating" -> 0
      [] state = "ValidatingTitle" -> 1
      [] state = "ValidatingBacklink" -> 2
      [] state = "ValidatingLength" -> 3
      [] state = "ValidatingReadability" -> 4
      [] state = "ValidatingBrand" -> 5
      [] state = "Done" -> 6
      [] state = "Errored" -> 0

\* C9 (as claimed): in a run with a callback (on a well-formed request) a
\* state is reported only once the calls of the states before it have
\* completed, and the last report announces the state the run is in.
C9_ReportFollowsState ==
    \A r \in Runs :
        (/\ WellFormedRun(run[r])
         /\ run[r].progress_callback
         /\ run[r].reports # <<>>) =>
            /\ \A k \in 1..Len(run[r].reports) :
                  Len(run[r].calls) >= CallsBefore(ReportedState(run[r].reports[k]))
            /\ ReportedState(run[r].reports[Len(run[r].reports)]) = State(run[r])

\* C10: no task is called twice in a run, and a failed call is the last call
\* of its run.
C10_NoRetry ==
    \A r \in Runs :
        /\ \A i, j \in 1..Len(run[r].calls) :
              i # j => run[r].calls[i].task # run[r].calls[j].task
        /\ \A i \in 1..Len(run[r].calls) :
              Raises(run[r].calls[i].outcome) => i = Len(run[r].calls)

\* the fourth call of a run failed and the run stopped there
C10_Witness ==
    /\ run["A"].pc = "errored"
    /\ Len(run["A"].calls) = 4
    /\ Raises(run["A"].calls[4].outcome)

(***************************************************************************)
(* The returned result and its metrics                                     *)
(***************************************************************************)
\* the article a finished run returns, and the request it was made for
Returned(r) == run[r].result[1]

Request(r) == run[r].input_data

\* the output of the last step of the pipeline
LastStepOutput(r) == run[r].calls[Len(run[r].calls)].outcome.text

\* the metric fields of the result are those of the returned article, which
\* is the output of the last step, against the request's original URL
MetricsOfReturned(r) ==
    LET res == Returned(r)
        m == _calculate_metrics(res.final_article, Request(r).primary_keyword,
                                Request(r).original_article_url)
    IN  /\ res.final_article = LastStepOutput(r)
        /\ res.word_count = m.word_count
        /\ res.sentence_count = m.sentence_count
        /\ res.avg_words_per_sentence = m.avg_words_per_sentence
        /\ res.backlink_status = m.backlink_status

\* C11 as stated: the result's metric fields are the metrics of the returned
\* article against the request's original URL, and the validation summary
\* carries those same values (the average included: tenths against
\* hundredths).
C11_SummarySameValues ==
    \A r \in Runs :
        run[r].pc = "done" =>
            /\ MetricsOfReturned(r)
            /\ Returned(r).validation_summary.word_count = Returned(r).word_count
            /\ Returned(r).validation_summary.actual = Returned(r).word_count
            /\ Returned(r).validation_summary.sentence_count
                   = Returned(r).sentence_count
            /\ Returned(r).validation_summary.backlink_status
                   = Returned(r).backlink_status
            /\ 10 * Returned(r).validation_summary.avg_words_per_sentence
                   = Returned(r).avg_words_per_sentence

\* C11, amended: the result's metric fields are the metrics of the returned
\* article against the request's original URL; the validation summary
\* carries the same word count, sentence count and backlink status, and the
\* average cut to one decimal (the tenth nearest to the returned value).
C11_ResultConsistent ==
    \A r \in Runs :
        run[r].pc = "done" =>
            LET res == Returned(r)
                gap == 10 * res.validation_summary.avg_words_per_sentence
                          - res.avg_words_per_sentence
            IN  /\ MetricsOfReturned(r)
                /\ res.validation_summary.word_count = res.word_count
                /\ res.validation_summary.actual = res.word_count
                /\ res.validation_summary.target = Request(r).target_word_count
                /\ res.validation_summary.sentence_count = res.sentence_count
                /\ res.validation_summary.backlink_status = res.backlink_status
                /\ -5 <= gap /\ gap <= 5

\* a returned article whose average is not a whole number of tenths
C11_Witness ==
    /\ run["A"].pc = "done"
    /\ Returned("A").sentence_count = 3
    /\ Returned("A").avg_words_per_sentence % 10 # 0
    /\ Returned("A").final_article # GoodArticle

CallerKeys == {KeyOf(w) : w \in Workflows}

\* C13 (as claimed): two workflows constructed in one process with different
\* keys share no mutable state: while a workflow exists, no construction of
\* the other changes an environment entry it has written, and no workflow
\* ends up holding the key the other was given.
C13_NoSharedState ==
    [][/\ \A w \in Workflows, v \in EnvVars :
            (/\ workflow[w].self # <<>>
             /\ environ[v] = <<KeyOf(w)>>
             /\ workflow'[w] = workflow[w])
                => environ'[v] = environ[v]
       /\ \A w \in Workflows :
            workflow'[w].self # <<>>
                => workflow'[w].self[1].api_key \notin CallerKeys \ {KeyOf(w)}]_vars

(***************************************************************************)
(* The competitor sections of the synthesis prompt                         *)
(***************************************************************************)
\* the competitor items of a request that carry content
WithContent(comps) == {i \in 1..Len(comps) : comps[i].content # <<>>}

\* the synthesis prompt of r has been built
SynthesisDeclared(r) == run[r].declared # <<>>

\* C14: the synthesis prompt holds one section for each competitor item whose
\* content is not empty, in the order of the items, with the item's number,
\* URL and content (its first CompetitorContentLimit characters), and no
\* section for an item with empty content; run() fetches no page.
C14_PromptHasNonEmptyCompetitors ==
    \A r \in Runs :
        /\ run[r].fetched = <<>>
        /\ SynthesisDeclared(r) =>
              LET comps == Request(r).competitor_articles
                  sections == run[r].competitor_content
              IN  /\ {sections[k].article : k \in 1..Len(sections)} = WithContent(comps)
                  /\ Len(sections) = Cardinality(WithContent(comps))
                  /\ \A k \in 1..Len(sections) :
                        /\ k > 1 => sections[k - 1].article < sections[k].article
                        /\ sections[k].url = comps[sections[k].article].url
                        /\ sections[k].content # <<>>
                        /\ \/ sections[k].content = comps[sections[k].article].content
                           \/ /\ Len(comps[sections[k].article].content)
                                    > CompetitorContentLimit
                              /\ Len(sections[k].content) = CompetitorContentLimit
                              /\ \A j \in 1..CompetitorContentLimit :
                                    sections[k].content[j]
                                        = comps[sections[k].article].content[j]

\* two of three competitor contents are empty and the prompt holds the third
C14_Witness ==
    /\ SynthesisDeclared("A")
    /\ Len(Request("A").competitor_articles) = 3
    /\ Cardinality(WithContent(Request("A").competitor_articles)) = 1
    /\ Len(run["A"].competitor_content) = 1

(***************************************************************************)
(* The metrics of a text, read off the text position by position           *)
(***************************************************************************)
\* the positions lo..hi of t where a whitespace-delimited token starts
TokenStarts(t, lo, hi) ==
    {i \in lo..hi : t[i] \notin Whitespace /\ (i = lo \/ t[i - 1] \in Whitespace)}

\* the positions where a fragment starts: a character that is not sentence
\* punctuation, first of the text or right after a run of punctuation
FragmentStarts(t) ==
    {i \in 1..Len(t) : t[i] \notin {".", "!", "?"}
                        /\ (i = 1 \/ t[i - 1] \in {".", "!", "?"})}

\* the last position of the fragment that starts at i
FragmentEnd(t, i) ==
    CHOOSE j \in i..Len(t) :
        /\ \A k \in i..j : t[k] \notin {".", "!", "?"}
        /\ j = Len(t) \/ t[j + 1] \in {".", "!", "?"}

\* the length of the fragment at i without its leading and trailing whitespace
TrimmedLength(t, i) ==
    LET inked == {k \in i..FragmentEnd(t, i) : t[k] \notin Whitespace}
    IN  IF inked = {}
        THEN 0
        ELSE (CHOOSE k \in inked : \A l \in inked : l <= k)
                 - (CHOOSE k \in inked : \A l \in inked : k <= l) + 1

\* the fragments longer than ten characters once trimmed
KeptFragments(t) == {i \in FragmentStarts(t) : TrimmedLength(t, i) > 10}

\* the words of the fragments at the positions of starts, added up
RECURSIVE WordsIn(_, _)
WordsIn(t, starts) ==
    IF starts = {}
    THEN 0
    ELSE LET i == CHOOSE x \in starts : TRUE
         IN  Cardinality(TokenStarts(t, i, FragmentEnd(t, i)))
                 + WordsIn(t, starts \ {i})

\* u occurs in t at offset i, character for character
OccursAt(t, u, i) == \A j \in 1..Len(u) : t[i + j] = u[j]

\* C15: the word count of the returned article is the number of its
\* whitespace-delimited tokens, and 0 for an empty or whitespace-only text.
C15_WordCountIsTokens ==
    \A r \in Runs :
        run[r].pc = "done" =>
            LET t == Returned(r).final_article
            IN  /\ Returned(r).word_count = Cardinality(TokenStarts(t, 1, Len(t)))
                /\ (\A i \in 1..Len(t) : t[i] \in Whitespace)
                      => Returned(r).word_count = 0

\* a text with whitespace at its start, doubled between two words and at its
\* end
C15_Witness ==
    /\ run["A"].pc = "done"
    /\ Returned("A").final_article = <<" ">> \o W10 \o <<" ", " ">> \o W11
    /\ Returned("A").word_count = 2

\* C16: the sentence count of the returned article is the number of the
\* fragments between runs of . ! ? whose trimmed length is more than 10; a
\* fragment of 10 characters or fewer counts neither as a sentence nor
\* towards the average.
C16_SentenceCountIsKeptFragments ==
    \A r \in Runs :
        run[r].pc = "done" =>
            LET t == Returned(r).final_article
            IN  /\ Returned(r).sentence_count = Cardinality(KeptFragments(t))
                /\ KeptFragments(t) = {} => Returned(r).avg_words_per_sentence = 0

\* a fragment of exactly ten characters next to one of eleven
C16_Witness ==
    /\ run["A"].pc = "done"
    /\ Returned("A").final_article = W10 \o <<".">> \o W11
    /\ Returned("A").sentence_count = 1

\* C17 as stated: the average is the words of the kept sentences divided by
\* their number, and 0 when no sentence is kept.
C17_ExactQuotient ==
    \A r \in Runs :
        run[r].pc = "done" =>
            LET t == Returned(r).final_article
                n == Cardinality(KeptFragments(t))
            IN  IF n = 0
                THEN Returned(r).avg_words_per_sentence = 0
                ELSE Returned(r).avg_words_per_sentence * n
                         = 100 * WordsIn(t, KeptFragments(t))

\* C17, amended: the average is the words of the kept sentences divided by
\* their number, rounded to two decimals (a hundredth nearest to the
\* quotient), and 0 when no sentence is kept.
C17_QuotientToTwoDecimals ==
    \A r \in Runs :
        run[r].pc = "done" =>
            LET t == Returned(r).final_article
                n == Cardinality(KeptFragments(t))
                gap == 100 * WordsIn(t, KeptFragments(t))
                          - Returned(r).avg_words_per_sentence * n
            IN  IF n = 0
                THEN Returned(r).avg_words_per_sentence = 0
                ELSE 2 * gap <= n /\ -n <= 2 * gap

\* five words in three kept sentences: 1.67
C17_Witness ==
    /\ run["A"].pc = "done"
    /\ Returned("A").final_article = T12 \o <<".">> \o T12 \o <<".">> \o W11
    /\ Returned("A").avg_words_per_sentence = 167

\* C18: the backlink is reported present exactly when the original URL
\* occurs in the returned article character for character, case included.
C18_BacklinkIsExactSubstring ==
    \A r \in Runs :
        run[r].pc = "done" =>
            LET t == Returned(r).final_article
                u == Request(r).original_article_url
            IN  /\ Returned(r).backlink_status \in {"Present", "Not Found"}
                /\ Returned(r).backlink_status = "Present"
                      <=> \E i \in 0..(Len(t) - Len(u)) : OccursAt(t, u, i)

\* the URL occurs only in another case, and the backlink is not found
C18_Witness ==
    /\ run["A"].pc = "done"
    /\ \E i \in 0..(Len(Returned("A").final_article) - 3) :
          OccursAt(Returned("A").final_article, <<"U", "r", "l">>, i)
    /\ Returned("A").backlink_status = "Not Found"

\* the number of times the keyword occurs in a text, case ignored
KeywordOccurrences(t, kw) == CountOccurrences(LowerText(t), LowerText(kw))

\* C19 (as claimed): the metrics of the returned article include the
\* case-insensitive occurrence count of the primary keyword and its density,
\* occurrences / word count * 100, which is 0 when the word count is 0.
C19_KeywordMetrics ==
    \A r \in Runs :
        run[r].pc = "done" =>
            LET t == Returned(r).final_article
                m == _calculate_metrics(t, Request(r).primary_keyword,
                                        Request(r).original_article_url)
            IN  /\ {"keyword_count", "keyword_density"} \subseteq DOMAIN m
                /\ m.keyword_count = KeywordOccurrences(t, Request(r).primary_keyword)
                /\ m.word_count = 0 => m.keyword_density = 0
                /\ m.word_count > 0 =>
                      m.keyword_density * m.word_count = 100 * m.keyword_count

(***************************************************************************)
(* The results of the content fetcher                                      *)
(***************************************************************************)
\* neither the browser nor the HTTP request gets an answer
Unreachable(world) ==
    world.driver = <<>> /\ world.response.raised \in {"Timeout", "RequestException"}

\* the page has no text to extract: nothing but whitespace anywhere
NoExtractableText(world) ==
    /\ world.driver # <<>>
    /\ \A k \in 1..Len(world.driver[1].found) :
          Strip(world.driver[1].found[k]) = <<>>
    /\ world.driver[1].body # <<>>
    /\ Strip(world.driver[1].body[1]) = <<>>
    /\ world.response.raised = None
    /\ \A k \in 1..Len(world.response.document[1].text_elements) :
          Strip(world.response.document[1].text_elements[k]) = <<>>

\* C20 (as claimed): scrape_article reports an error whenever the URL is
\* empty, does not start with http:// or https://, is unreachable, or the
\* page yields no extractable text; every result whose error is None has
\* non-empty content.
C20_ErrorOrContent ==
    fetch.result # <<>> =>
        LET url == fetch.url[1]
            world == fetch.world[1]
            result == fetch.result[1]
        IN  /\ Strip(url) = <<>> => result.error # None
            /\ (~StartsWith(Strip(url), Http) /\ ~StartsWith(Strip(url), Https))
                  => result.error # None
            /\ Unreachable(world) => result.error # None
            /\ NoExtractableText(world) => result.error # None
            /\ result.error = None => result.content # <<>>

(***************************************************************************)
(* The form of the page                                                    *)
(***************************************************************************)
\* the script run that just ended was a Scrape click whose fetch failed
ScrapeFailed == screen'.outcome = "scrape_error"

\* C21: a failed fetch for one competitor empties that competitor's content
\* and shows the error, and changes nothing else: the competitor's URL, the
\* other competitors' URLs and contents, the other inputs, the stored
\* article and the article on display stay as they were, no run starts,
\* and the Generate button is left enabled.
C21_FetchFailureConfined ==
    [][ScrapeFailed =>
          /\ \E i \in 1..3 :
                /\ fetch'.url = <<widgets.competitor_articles[i].url>>
                /\ fetch'.result[1].error # None
                /\ widgets'.competitor_articles[i].content = <<>>
                /\ widgets'.competitor_articles[i].url
                      = widgets.competitor_articles[i].url
                /\ \A j \in (1..3) \ {i} :
                      widgets'.competitor_articles[j] = widgets.competitor_articles[j]
          /\ widgets'.primary_keyword = widgets.primary_keyword
          /\ widgets'.original_article_url = widgets.original_article_url
          /\ widgets'.original_article_content = widgets.original_article_content
          /\ widgets'.enable_scraping = widgets.enable_scraping
          /\ session' = session
          /\ screen'.article = DisplayResults(session)
          /\ run' = run
          /\ ~session'.processing /\ Free("A")']_vars

\* a fetch failed for one competitor while another holds content and the
\* session holds an earlier article
C21_Witness ==
    /\ screen.outcome = "scrape_error"
    /\ session.generated_article # <<>>
    /\ fetch.result # <<>> /\ fetch.result[1].error # None
    /\ widgets.competitor_articles[1].content = <<>>
    /\ widgets.competitor_articles[2].content # <<>>

(***************************************************************************)
(* The LLM client                                                          *)
(***************************************************************************)
\* C22 (as claimed): whatever the provider tag, a call of generate ends with
\* a text returned or with an exception; it never returns without a text.
C22_TextOrError ==
    client.result # <<>> => client.result[1].kind \in {"text", "Exception"}

(***************************************************************************)
(* The fallback of the content fetcher                                     *)
(***************************************************************************)
\* what the Selenium scrape and the requests scrape of the finished call give
SeleniumResult == scrape_article_selenium(fetch.url[1], fetch.world[1])

RequestsResult == _scrape_with_requests(fetch.url[1], fetch.world[1])

\* the Selenium scrape stopped because the package cannot be imported: the
\* URL passed its validation and Selenium is not installed
SeleniumNotInstalled ==
    /\ ValidateUrl(fetch.url[1]) = None
    /\ ~fetch.world[1].selenium_installed

JustConstructed(w) == workflow'[w] # workflow[w]

\* the call that made workflow record wf passed both an api_key and a model
BothSupplied(wf) == wf.given.api_key # <<>> /\ wf.given.model # <<>>

\* the call ended with the ValueError raised before LLM(...) and before the
\* agents: no object, and the message of the missing key
RaisedBeforeLLM(wf) ==
    /\ wf.self = <<>>
    /\ wf.raised = "ValueError"
    /\ wf.message = KeyNotFound

\* neither GOOGLE_API_KEY nor OPENAI_API_KEY is set in env
NeitherKeySet(env) == env["GOOGLE_API_KEY"] = <<>> /\ env["OPENAI_API_KEY"] = <<>>

\* C24: a construction without both an api_key and a model raises ValueError
\* before the LLM and the agents are created exactly when neither
\* GOOGLE_API_KEY nor OPENAI_API_KEY is set in the environment it meets; a
\* construction with both never raises that error and keeps the key it was
\* given, whatever the environment holds.
C24_KeyNotFoundIffNeitherSet ==
    [][\A w \in Workflows :
          JustConstructed(w) =>
              IF BothSupplied(workflow'[w])
              THEN /\ ~RaisedBeforeLLM(workflow'[w])
                   /\ workflow'[w].self # <<>> =>
                         /\ workflow'[w].self[1].api_key = workflow'[w].given.api_key[1]
                         /\ workflow'[w].self[1].llm.api_key = workflow'[w].given.api_key[1]
                         /\ workflow'[w].self[1].model = workflow'[w].given.model[1]
              ELSE RaisedBeforeLLM(workflow'[w]) <=> NeitherKeySet(environ)]_vars

\* one construction without arguments met an environment with only
\* OPENAI_API_KEY and went on; another, with a model and no key, raised
C24_Witness ==
    /\ ~BothSupplied(workflow["w1"])
    /\ workflow["w1"].self # <<>>
    /\ environ["GOOGLE_API_KEY"] = <<>>
    /\ environ["OPENAI_API_KEY"] # <<>>
    /\ workflow["w2"].given.model # <<>>
    /\ RaisedBeforeLLM(workflow["w2"])

(***************************************************************************)
(* The percentages a run reports                                           *)
(***************************************************************************)
\* the percentages reported so far by run r, in order
Percentages(r) == [k \in 1..Len(run[r].reports) |-> run[r].reports[k].progress]

NonDecreasing(seq) == \A i, j \in 1..Len(seq) : i <= j => seq[i] <= seq[j]

\* run r returned / run r ended with an exception
Succeeded(r) == run[r].pc = "done"

Failed(r) == run[r].pc = "errored"

\* the run failed while the crew was executing: its last LLM call raised
FailedInCrew(r) ==
    /\ Failed(r)
    /\ run[r].calls # <<>>
    /\ Raises(run[r].calls[Len(run[r].calls)].outcome)

\* on success the percentages never go down and end with 100
SuccessReports(r) ==
    Succeeded(r) =>
        /\ NonDecreasing(Percentages(r))
        /\ Percentages(r) # <<>>
        /\ Percentages(r)[Len(Percentages(r))] = 100

\* C25 (as claimed): with a progress callback, a successful run reports
\* non-decreasing percentages ending with 100; a failing run never reports
\* 100, its last report is 0 and it ends with an exception.
C25_FailureEndsWithZero ==
    \A r \in Runs :
        run[r].progress_callback =>
            /\ SuccessReports(r)
            /\ Failed(r) =>
                  /\ \A k \in 1..Len(Percentages(r)) : Percentages(r)[k] # 100
                  /\ Percentages(r) # <<>>
                  /\ Percentages(r)[Len(Percentages(r))] = 0
                  /\ run[r].raised # None

\* C25 (amended): with a progress callback, a successful run reports
\* non-decreasing percentages ending with 100; no failing run reports 100;
\* a run that fails while the crew executes reports 0 last and ends with the
\* exception of the failed call; a run that fails earlier, on a missing key
\* of input_data, has reported 20 and nothing else, and ends with KeyError.
C25_ZeroOnlyForCrewFailure ==
    \A r \in Runs :
        run[r].progress_callback =>
            /\ SuccessReports(r)
            /\ Failed(r) =>
                  /\ \A k \in 1..Len(Percentages(r)) : Percentages(r)[k] # 100
                  /\ IF FailedInCrew(r)
                     THEN /\ Percentages(r)[Len(Percentages(r))] = 0
                          /\ run[r].raised = run[r].calls[Len(run[r].calls)].outcome.kind
                     ELSE /\ Percentages(r) = <<20>>
                          /\ run[r].raised = "KeyError"

\* the fourth call of the crew failed in a run with a callback: six step
\* reports, then 0
C25_Witness ==
    /\ run["A"].progress_callback
    /\ FailedInCrew("A")
    /\ Len(run["A"].calls) = 4
    /\ Percentages("A") = <<20, 30, 45, 60, 75, 90, 0>>

(***************************************************************************)
(* The key and the model of the LLM                                        *)
(***************************************************************************)
\* the provider whose keys the environment variable v holds, as the part of
\* a model name that names it
ProviderOfVariable(v) ==
    CASE v = "GOOGLE_API_KEY" -> Gemini
      [] v = "OPENAI_API_KEY" -> OpenAI
      [] v = "GROQ_API_KEY" -> Groq

\* C26 (as claimed): the key of the LLM of a workflow belongs to the provider
\* of the workflow's model: a key that came from the .env entry of one
\* provider is never handed to the model of another, and a workflow made by
\* the environment fallback (model Gemini) holds a Google key.
C26_KeyBelongsToModelProvider ==
    \A w \in Workflows :
        workflow[w].self # <<>> =>
            \A v \in EnvVars :
                workflow[w].self[1].llm.api_key = DotEnvKeys[v]
                    => Contains(LowerText(workflow[w].self[1].llm.model),
                                ProviderOfVariable(v))

(***************************************************************************)
(* The 'processing' flag of the session                                    *)
(***************************************************************************)
\* the Generate handler is inside workflow.run(...)
RunExecuting == run["A"].caller = "ui" /\ run["A"].pc # "idle"

\* the script run has ended and the page waits for the user
ScriptEnded ==
    screen.outcome \in {"none", "invalid", "no_workflow", "success", "run_error"}

\* C27: the flag 'processing' is True only while the Generate handler is
\* executing a workflow run; whenever a script run has ended, whether run()
\* returned, run() or the constructor raised, or the form was refused, the
\* flag is False, so the Generate button is enabled again.
C27_ProcessingOnlyWhileRunning ==
    /\ session.processing => RunExecuting
    /\ ScriptEnded => ~session.processing
    /\ ScriptEnded \/ RunExecuting

\* a run started from the page raised, and the script run that handled the
\* exception has ended
C27_Witness ==
    /\ screen.outcome = "run_error"
    /\ ~session.processing
    /\ ~RunExecuting

(***************************************************************************)
(* Generate on an incomplete form                                          *)
(***************************************************************************)
\* the script run that just ended was a click on Generate
GenerateClicked == screen'.outcome \in {"invalid", "no_workflow", "running"}

\* the primary keyword, the URL or the content of the original article is
\* empty, or no competitor has content
Incomplete(form) ==
    \/ form.primary_keyword = <<>>
    \/ form.original_article_url = <<>>
    \/ form.original_article_content = <<>>
    \/ \A i \in 1..Len(form.competitor_articles) :
          form.competitor_articles[i].content = <<>>

\* C28: a click on Generate while the form is incomplete constructs no
\* workflow (no workflow object, no write to the environment), starts no run
\* and so makes no LLM call, and leaves the session's generated_article and
\* processing flag as they were; the page shows the validation errors.
C28_IncompleteFormChangesNothing ==
    [][(GenerateClicked /\ Incomplete(widgets)) =>
          /\ workflow' = workflow
          /\ environ' = environ
          /\ run' = run
          /\ run'["A"].calls = <<>>
          /\ session'.generated_article = session.generated_article
          /\ session'.processing = session.processing
          /\ screen'.outcome = "invalid"
          /\ screen'.article = DisplayResults(session)]_vars

\* Generate was refused on a form whose only gap is the competitors'
\* content, in a session that holds an earlier article
C28_Witness ==
    /\ screen.outcome = "invalid"
    /\ widgets.primary_keyword # <<>>
    /\ widgets.original_article_url # <<>>
    /\ widgets.original_article_content # <<>>
    /\ \A i \in 1..3 : widgets.competitor_articles[i].content = <<>>
    /\ session.generated_article = EarlierResult
    /\ ~session.processing
    /\ \A w \in Workflows : workflow[w] = NoWorkflow
====
